---- MODULE Spec2Model ----
(***************************************************************************)
(* The Flappy Bird component, src/flappy_bird_frontend/src/routes/         *)
(* FlappyBird.svelte: the game loop (animate/update), the input routing    *)
(* (handleStartInput, onKeydown, the overlay buttons), the animation-frame *)
(* scheduling and the persisted best score.                                *)
(*                                                                         *)
(* Numbers.  Every length and speed of the source is a multiple of 0.05,   *)
(* so the model counts in units of 1/Unit = 0.05 and all arithmetic is     *)
(* exact integer arithmetic.  The world has its default size 400 x 600     *)
(* (what resizeCanvas computes for every window wider than 480 px).        *)
(*                                                                         *)
(* Functions of the component are operators from the component's state (a  *)
(* record g with one field per `let` of the script) to its next state, so  *)
(* that a handler is the composition of the calls it makes.  The fields    *)
(* ticks and calls are instrumentation: the number of update() runs since  *)
(* resetGame, and the functions the current handler has run.               *)
(* framePending and orphanFrames stand for the handle in animationFrame    *)
(* and the scheduler's list of callbacks: whether the request the handle   *)
(* names is pending, and how many requests are pending under a handle      *)
(* that has since been overwritten.                                        *)
(***************************************************************************)
EXTENDS Integers, Sequences, FiniteSets

VARIABLES gameStarted, gamePaused, gameOver, score, bestScore, pipes, bird,
          framePending, orphanFrames, storage, lifecycle, ticks, calls

vars == <<gameStarted, gamePaused, gameOver, score, bestScore, pipes, bird,
          framePending, orphanFrames, storage, lifecycle, ticks, calls>>

(* ----------------------------- constants ------------------------------ *)

Unit == 20
PIPE_WIDTH == 52 * Unit
BIRD_SIZE == 36 * Unit
GRAVITY == (55 * Unit) \div 100
JUMP == 0 - ((85 * Unit) \div 10)
PIPE_GAP == 114 * Unit
PIPE_INTERVAL == 92 * Unit
BIRD_X == 56 * Unit
GAME_SPEED == (22 * Unit) \div 10
GROUND_HEIGHT == 54 * Unit
MAX_PIPE_HEIGHT == 260
MIN_PIPE_HEIGHT == 40
baseWidth == 400 * Unit
baseHeight == 600 * Unit

(* ------------------------------ bounds -------------------------------- *)

\* update() runs at most MaxTicks times per run (between two resetGame).
MaxTicks == 226
\* The player flaps only on every FlapPeriod-th frame of a run; every other
\* input (pause, resume, start, restart, the keys) may come at any time.
\* Flapping on any frame gives more bird trajectories than can be enumerated
\* over the 181 frames it takes the first pipe to pass the bird.
FlapPeriod == 15
\* floor(Math.random() * (MAX_PIPE_HEIGHT - MIN_PIPE_HEIGHT)) takes these values.
RandomDraws == {0, 195} \cap (0 .. (MAX_PIPE_HEIGHT - MIN_PIPE_HEIGHT - 1))
\* What localStorage holds under 'flappybird_best' when the component mounts.
StoredContents ==
    { [present |-> FALSE, text |-> <<>>],
      [present |-> TRUE, text |-> <<"a">>],
      [present |-> TRUE, text |-> <<"1">>] }
\* The keys the player presses.
Keys == {" ", "ArrowUp", "p", "P", "r", "R", "x"}
\* The characters of the texts the best-score loading is tried on, and those
\* texts: every text of at most two characters, and no entry at all.
Alphabet == {"0", "1", "9", "-", "+", " ", "a"}
AllStoredContents ==
    { [present |-> FALSE, text |-> <<>>] } \cup
    { [present |-> TRUE, text |-> t] :
        t \in {<<>>} \cup { <<c>> : c \in Alphabet }
                     \cup { <<c, d>> : c \in Alphabet, d \in Alphabet } }

(* ------------------------- JavaScript values -------------------------- *)

\* A JavaScript number that is an integer or NaN.
Num(n) == [nan |-> FALSE, val |-> n]
NaN == [nan |-> TRUE, val |-> 0]
\* a > b on numbers: false as soon as one side is NaN.
JsGt(a, b) == ~a.nan /\ ~b.nan /\ a.val > b.val

Digits == <<"0", "1", "2", "3", "4", "5", "6", "7", "8", "9">>
IsDigit(c) == \E i \in 1..10 : Digits[i] = c
DigitVal(c) == (CHOOSE i \in 1..10 : Digits[i] = c) - 1

RECURSIVE StripLeft(_)
StripLeft(s) == IF s # <<>> /\ Head(s) = " " THEN StripLeft(Tail(s)) ELSE s

RECURSIVE ParseDigits(_, _)
ParseDigits(s, acc) ==
    IF s # <<>> /\ IsDigit(Head(s))
    THEN ParseDigits(Tail(s), acc * 10 + DigitVal(Head(s)))
    ELSE acc

\* parseInt(text) without a radix, on texts with no hexadecimal prefix:
\* leading blanks, an optional sign, then the longest run of digits;
\* NaN when there is no digit there.
parseInt(text) ==
    LET t == StripLeft(text)
        signed == t # <<>> /\ Head(t) \in {"+", "-"}
        u == IF signed THEN Tail(t) ELSE t
    IN  IF u = <<>> \/ ~IsDigit(Head(u)) THEN NaN
        ELSE IF signed /\ Head(t) = "-" THEN Num(0 - ParseDigits(u, 0))
        ELSE Num(ParseDigits(u, 0))

RECURSIVE NatToString(_)
NatToString(n) ==
    IF n < 10 THEN <<Digits[n + 1]>>
    ELSE Append(NatToString(n \div 10), Digits[(n % 10) + 1])

\* number + '' : the decimal text of a number.
numberToString(a) ==
    IF a.nan THEN <<"N", "a", "N">>
    ELSE IF a.val < 0 THEN <<"-">> \o NatToString(0 - a.val)
    ELSE NatToString(a.val)

\* key.toLowerCase() on the keys of Keys.
toLowerCase(key) == IF key = "P" THEN "p" ELSE IF key = "R" THEN "r" ELSE key

(* ------------------------- best score loading ------------------------- *)

\* onMount: let raw = localStorage.getItem(..); bestScore = raw ? parseInt(raw) : 0
\* (raw is falsy when the entry is absent, null, or is the empty string).
loadBestScore(raw) ==
    IF raw.present /\ raw.text # <<>> THEN parseInt(raw.text) ELSE Num(0)

(* ------------------------- animation frames --------------------------- *)

\* animationFrame = requestAnimationFrame(animate): the new request is the one
\* animationFrame names; a request still pending under the old handle stays
\* pending and can no longer be cancelled (orphanFrames counts those).
requestAnimationFrame(g) ==
    [g EXCEPT !.orphanFrames = IF g.framePending THEN @ + 1 ELSE @,
              !.framePending = TRUE]

\* cancelAnimationFrame(animationFrame): drops the request animationFrame names,
\* if it is still pending.
cancelAnimationFrame(g) == [g EXCEPT !.framePending = FALSE]

(* ------------------------------ the game ------------------------------ *)

Called(g, name) == [g EXCEPT !.calls = Append(@, name)]

addPipe(g, r) ==
    LET topH == r + MIN_PIPE_HEIGHT
    IN  [g EXCEPT !.pipes = Append(@, [x |-> baseWidth, width |-> PIPE_WIDTH,
                                       height |-> topH * Unit, gap |-> PIPE_GAP,
                                       passed |-> FALSE])]

\* resetGame, also clearing the best score.
resetGame_resetsBest(g, r) ==
    addPipe([g EXCEPT !.pipes = <<>>,
                      !.score = 0,
                      !.bestScore = Num(0),
                      !.bird = [x |-> BIRD_X, y |-> baseHeight \div 2, vy |-> 0,
                                width |-> BIRD_SIZE, height |-> BIRD_SIZE],
                      !.ticks = 0], r)

\* resetGame, without score = 0.
resetGame_keepsScore(g, r) ==
    addPipe([g EXCEPT !.pipes = <<>>,
                      !.bird = [x |-> BIRD_X, y |-> baseHeight \div 2, vy |-> 0,
                                width |-> BIRD_SIZE, height |-> BIRD_SIZE],
                      !.ticks = 0], r)

resetGame(g, r) ==
    addPipe([g EXCEPT !.pipes = <<>>,
                      !.score = 0,
                      !.bird = [x |-> BIRD_X, y |-> baseHeight \div 2, vy |-> 0,
                                width |-> BIRD_SIZE, height |-> BIRD_SIZE],
                      !.ticks = 0], r)

\* endGame, also setting gamePaused.
endGame_setsPaused(g) ==
    cancelAnimationFrame([Called(g, "endGame") EXCEPT !.gameOver = TRUE,
                                                      !.gamePaused = TRUE])

\* endGame, also clearing gameStarted.
endGame_clearsStarted(g) ==
    cancelAnimationFrame([Called(g, "endGame") EXCEPT !.gameOver = TRUE,
                                                      !.gameStarted = FALSE])

endGame(g) == cancelAnimationFrame([Called(g, "endGame") EXCEPT !.gameOver = TRUE])

\* isColliding, counting boxes that only touch.
isColliding_touching(x1, y1, w1, h1, x2, y2, w2, h2) ==
    /\ x1 <= x2 + w2
    /\ x1 + w1 >= x2
    /\ y1 <= y2 + h2
    /\ y1 + h1 >= y2

isColliding(x1, y1, w1, h1, x2, y2, w2, h2) ==
    /\ x1 < x2 + w2
    /\ x1 + w1 > x2
    /\ y1 < y2 + h2
    /\ y1 + h1 > y2

\* The scoring branch, without pipe.passed = true.
scorePipe_leavesUnpassed(g, i) ==
    LET g1 == [g EXCEPT !.score = @ + 1]
    IN  IF JsGt(Num(g1.score), g1.bestScore)
        THEN [g1 EXCEPT !.bestScore = Num(g1.score),
                        !.storage = [present |-> TRUE, text |-> numberToString(Num(g1.score))]]
        ELSE g1

\* The body of the scoring branch: the pipe at index i has just been passed.
scorePipe(g, i) ==
    LET g1 == [g EXCEPT !.score = @ + 1, !.pipes[i].passed = TRUE]
    IN  IF JsGt(Num(g1.score), g1.bestScore)
        THEN [g1 EXCEPT !.bestScore = Num(g1.score),
                        !.storage = [present |-> TRUE, text |-> numberToString(Num(g1.score))]]
        ELSE g1

\* The "Collision & scoring" loop of update, from the pipe at index i on.
RECURSIVE collideAndScore(_, _)
collideAndScore(g, i) ==
    IF i > Len(g.pipes) THEN g
    ELSE LET pipe == g.pipes[i]
             b == g.bird
             hitUpper == isColliding(b.x, b.y, b.width, b.height,
                                     pipe.x, 0, PIPE_WIDTH, pipe.height)
             hitLower == isColliding(b.x, b.y, b.width, b.height,
                                     pipe.x, pipe.height + PIPE_GAP, PIPE_WIDTH,
                                     baseHeight - GROUND_HEIGHT - (pipe.height + PIPE_GAP))
         IN  IF hitUpper \/ hitLower THEN endGame(g)
             ELSE IF ~pipe.passed /\ b.x > pipe.x + PIPE_WIDTH
             THEN collideAndScore(scorePipe(g, i), i + 1)
             ELSE collideAndScore(g, i + 1)

\* Move, cull and spawn, the spawn test using PIPE_WIDTH for PIPE_INTERVAL.
movePipes_spawnByWidth(g, r) ==
    LET moved == [i \in 1..Len(g.pipes) |-> [g.pipes[i] EXCEPT !.x = @ - GAME_SPEED]]
        kept == IF Len(moved) > 0 /\ moved[1].x + PIPE_WIDTH < 0 THEN Tail(moved) ELSE moved
        g1 == [g EXCEPT !.pipes = kept]
    IN  IF Len(kept) = 0 \/ kept[Len(kept)].x < baseWidth - PIPE_WIDTH
        THEN addPipe(g1, r)
        ELSE g1

\* Move, cull and spawn, the cull test leaving out the pipe's width.
movePipes_cullsAtLeftEdge(g, r) ==
    LET moved == [i \in 1..Len(g.pipes) |-> [g.pipes[i] EXCEPT !.x = @ - GAME_SPEED]]
        kept == IF Len(moved) > 0 /\ moved[1].x < 0 THEN Tail(moved) ELSE moved
        g1 == [g EXCEPT !.pipes = kept]
    IN  IF Len(kept) = 0 \/ kept[Len(kept)].x < baseWidth - PIPE_INTERVAL
        THEN addPipe(g1, r)
        ELSE g1

\* Move, cull and spawn, the spawn test reading the first pipe, not the last.
movePipes_spawnByFirst(g, r) ==
    LET moved == [i \in 1..Len(g.pipes) |-> [g.pipes[i] EXCEPT !.x = @ - GAME_SPEED]]
        kept == IF Len(moved) > 0 /\ moved[1].x + PIPE_WIDTH < 0 THEN Tail(moved) ELSE moved
        g1 == [g EXCEPT !.pipes = kept]
    IN  IF Len(kept) = 0 \/ kept[1].x < baseWidth - PIPE_INTERVAL
        THEN addPipe(g1, r)
        ELSE g1

\* Move, cull and spawn: lines 134-145 of update.
movePipes(g, r) ==
    LET moved == [i \in 1..Len(g.pipes) |-> [g.pipes[i] EXCEPT !.x = @ - GAME_SPEED]]
        kept == IF Len(moved) > 0 /\ moved[1].x + PIPE_WIDTH < 0 THEN Tail(moved) ELSE moved
        g1 == [g EXCEPT !.pipes = kept]
    IN  IF Len(kept) = 0 \/ kept[Len(kept)].x < baseWidth - PIPE_INTERVAL
        THEN addPipe(g1, r)
        ELSE g1

\* update, with a ground check that clamps y and lets the tick go on.
update_groundOnlyClamps(g, r) ==
    LET g0 == [Called(g, "update") EXCEPT !.ticks = @ + 1]
        vy1 == g0.bird.vy + GRAVITY
        y1 == g0.bird.y + vy1
        y2 == IF y1 + BIRD_SIZE > baseHeight - GROUND_HEIGHT
              THEN baseHeight - GROUND_HEIGHT - BIRD_SIZE ELSE y1
    IN  collideAndScore(
            movePipes([g0 EXCEPT !.bird.vy = vy1,
                                 !.bird.y = IF y2 < 0 THEN 0 ELSE y2], r), 1)

update(g, r) ==
    LET g0 == [Called(g, "update") EXCEPT !.ticks = @ + 1]
        vy1 == g0.bird.vy + GRAVITY
        y1 == g0.bird.y + vy1
    IN  IF y1 + BIRD_SIZE > baseHeight - GROUND_HEIGHT
        THEN endGame([g0 EXCEPT !.bird.vy = vy1,
                                !.bird.y = baseHeight - GROUND_HEIGHT - BIRD_SIZE])
        ELSE collideAndScore(
                 movePipes([g0 EXCEPT !.bird.vy = vy1,
                                      !.bird.y = IF y1 < 0 THEN 0 ELSE y1], r), 1)

\* animate, never requesting the next frame.
animate_neverReschedules(g, r) ==
    IF g.gamePaused THEN g ELSE update(g, r)

\* animate, requesting the next frame even when the game is over.
animate_alwaysReschedules(g, r) ==
    IF g.gamePaused THEN g ELSE requestAnimationFrame(update(g, r))

animate(g, r) ==
    IF g.gamePaused THEN g
    ELSE LET g1 == update(g, r)
         IN  IF ~g1.gameOver THEN requestAnimationFrame(g1) ELSE g1

startGame(g, r1, r2) ==
    animate([resetGame(Called(g, "startGame"), r1) EXCEPT !.gameStarted = TRUE,
                                                         !.gameOver = FALSE,
                                                         !.gamePaused = FALSE], r2)

\* togglePause, pausing without cancelAnimationFrame.
togglePause_pauseKeepsFrame(g, r) ==
    IF ~g.gameStarted \/ g.gameOver THEN g
    ELSE IF g.gamePaused
    THEN animate([Called(g, "resume") EXCEPT !.gamePaused = FALSE], r)
    ELSE [Called(g, "pause") EXCEPT !.gamePaused = TRUE]

\* togglePause, running animate once more before it pauses.
togglePause_ticksOnPause(g, r) ==
    IF ~g.gameStarted \/ g.gameOver THEN g
    ELSE IF g.gamePaused
    THEN animate([Called(g, "resume") EXCEPT !.gamePaused = FALSE], r)
    ELSE cancelAnimationFrame([animate(Called(g, "pause"), r) EXCEPT !.gamePaused = TRUE])

togglePause(g, r) ==
    IF ~g.gameStarted \/ g.gameOver THEN g
    ELSE IF g.gamePaused
    THEN animate([Called(g, "resume") EXCEPT !.gamePaused = FALSE], r)
    ELSE cancelAnimationFrame([Called(g, "pause") EXCEPT !.gamePaused = TRUE])

flap(g) ==
    IF ~g.gameStarted THEN g
    ELSE IF g.gameOver THEN g
    ELSE [Called(g, "flap") EXCEPT !.bird.vy = JUMP]

(* ------------------------------ routing ------------------------------- *)

\* handleStartInput, without the branch that resumes a paused game.
handleStartInput_noResume(g, r1, r2) ==
    IF ~g.gameStarted \/ (g.gameOver /\ ~g.gamePaused) THEN startGame(g, r1, r2)
    ELSE flap(g)

handleStartInput(g, r1, r2) ==
    IF ~g.gameStarted \/ (g.gameOver /\ ~g.gamePaused) THEN startGame(g, r1, r2)
    ELSE IF g.gamePaused THEN togglePause(g, r2)
    ELSE flap(g)

\* onKeydown, with Space and ArrowUp flapping in a paused game.
onKeydown_noResume(g, key, r1, r2) ==
    LET g1 == IF key \in {" ", "ArrowUp"}
              THEN IF ~g.gameStarted \/ g.gameOver THEN startGame(g, r1, r2)
                   ELSE flap(g)
              ELSE g
        g2 == IF toLowerCase(key) = "p" /\ g1.gameStarted /\ ~g1.gameOver
              THEN togglePause(g1, r2) ELSE g1
    IN  IF toLowerCase(key) = "r" /\ g2.gameOver THEN startGame(g2, r1, r2) ELSE g2

\* onKeydown, with R restarting whether or not the game is over.
onKeydown_restartUngated(g, key, r1, r2) ==
    LET g1 == IF key \in {" ", "ArrowUp"}
              THEN IF ~g.gameStarted \/ g.gameOver THEN startGame(g, r1, r2)
                   ELSE IF g.gamePaused THEN togglePause(g, r2)
                   ELSE flap(g)
              ELSE g
        g2 == IF toLowerCase(key) = "p" /\ g1.gameStarted /\ ~g1.gameOver
              THEN togglePause(g1, r2) ELSE g1
    IN  IF toLowerCase(key) = "r" THEN startGame(g2, r1, r2) ELSE g2

onKeydown(g, key, r1, r2) ==
    LET g1 == IF key \in {" ", "ArrowUp"}
              THEN IF ~g.gameStarted \/ g.gameOver THEN startGame(g, r1, r2)
                   ELSE IF g.gamePaused THEN togglePause(g, r2)
                   ELSE flap(g)
              ELSE g
        g2 == IF toLowerCase(key) = "p" /\ g1.gameStarted /\ ~g1.gameOver
              THEN togglePause(g1, r2) ELSE g1
    IN  IF toLowerCase(key) = "r" /\ g2.gameOver THEN startGame(g2, r1, r2) ELSE g2

(* --------------------------- the state machine ------------------------ *)

\* The component's state as one record.
G == [gameStarted |-> gameStarted, gamePaused |-> gamePaused, gameOver |-> gameOver,
      score |-> score, bestScore |-> bestScore, pipes |-> pipes, bird |-> bird,
      framePending |-> framePending, orphanFrames |-> orphanFrames,
      storage |-> storage, ticks |-> ticks, calls |-> <<>>]

\* The state a handler leaves behind.  calls is renewed by a handler that ran
\* one of startGame, togglePause, flap or update, and then holds what it ran.
Settle(g) ==
    /\ gameStarted' = g.gameStarted
    /\ gamePaused' = g.gamePaused
    /\ gameOver' = g.gameOver
    /\ score' = g.score
    /\ bestScore' = g.bestScore
    /\ pipes' = g.pipes
    /\ bird' = g.bird
    /\ framePending' = g.framePending
    /\ orphanFrames' = g.orphanFrames
    /\ storage' = g.storage
    /\ ticks' = g.ticks
    /\ calls' = IF g.calls = <<>> THEN calls ELSE g.calls
    /\ UNCHANGED lifecycle

\* Settle, in a run of at most MaxTicks ticks.
Commit(g) == g.ticks <= MaxTicks /\ Settle(g)

Running == gameStarted /\ ~gamePaused /\ ~gameOver

\* The component is created, then mounted (its listeners are attached between
\* onMount and the cleanup onMount returns), then destroyed.
mounted == lifecycle = "mounted"

\* The state after the script has run, before onMount: contents is what
\* localStorage may hold.
InitWith(contents) ==
    /\ gameStarted = FALSE
    /\ gamePaused = FALSE
    /\ gameOver = FALSE
    /\ score = 0
    /\ bestScore = Num(0)
    /\ pipes = <<>>
    /\ bird = [x |-> BIRD_X, y |-> baseHeight \div 2, vy |-> 0,
               width |-> BIRD_SIZE, height |-> BIRD_SIZE]
    /\ framePending = FALSE
    /\ orphanFrames = 0
    /\ storage \in contents
    /\ lifecycle = "created"
    /\ ticks = 0
    /\ calls = <<>>

Init == InitWith(StoredContents)

\* onMount: the listeners are added and the best score is loaded.
Mount ==
    /\ lifecycle = "created"
    /\ lifecycle' = "mounted"
    /\ bestScore' = loadBestScore(storage)
    /\ UNCHANGED <<gameStarted, gamePaused, gameOver, score, pipes, bird,
                   framePending, orphanFrames, storage, ticks, calls>>

\* mousedown or touchstart on the canvas.
Pointer ==
    /\ mounted
    /\ Running => ticks % FlapPeriod = 0
    /\ \E r1 \in RandomDraws, r2 \in RandomDraws :
           Commit(handleStartInput(G, r1, r2))

\* keydown on the window.
Keydown ==
    /\ mounted
    /\ \E key \in Keys :
           /\ (Running /\ key \in {" ", "ArrowUp"}) => ticks % FlapPeriod = 0
           /\ \E r1 \in RandomDraws, r2 \in RandomDraws :
                  Commit(onKeydown(G, key, r1, r2))

\* A click on the Start/Restart button, which is shown when the game has not
\* started or is over.
StartButton ==
    /\ mounted
    /\ ~gameStarted \/ gameOver
    /\ \E r1 \in RandomDraws, r2 \in RandomDraws :
           Commit(startGame(G, r1, r2))

\* A click on the Pause/Resume button, which is shown otherwise.
PauseButton ==
    /\ mounted
    /\ ~(~gameStarted \/ gameOver)
    /\ \E r \in RandomDraws : Commit(togglePause(G, r))

\* The callbacks the scheduler can run next: the request animationFrame names,
\* or one whose handle has been overwritten.
PendingFrames ==
    (IF framePending THEN {"latest"} ELSE {}) \cup
    (IF orphanFrames > 0 THEN {"orphan"} ELSE {})

\* The animation-frame scheduler runs one pending callback, animate.
Frame ==
    \E f \in PendingFrames, r \in RandomDraws :
        LET g == IF f = "latest" THEN [G EXCEPT !.framePending = FALSE]
                 ELSE [G EXCEPT !.orphanFrames = @ - 1]
        IN  Commit(animate(g, r))

\* The same callback, whatever the length of the run: past MaxTicks ticks the
\* player gives no input any more and the frames go on.
FrameAnyTick ==
    \E f \in PendingFrames, r \in RandomDraws :
        LET g == IF f = "latest" THEN [G EXCEPT !.framePending = FALSE]
                 ELSE [G EXCEPT !.orphanFrames = @ - 1]
        IN  Settle(animate(g, r))

\* The cleanup onMount returns: the listeners go, the named request is cancelled.
Destroy ==
    /\ mounted
    /\ lifecycle' = "destroyed"
    /\ framePending' = FALSE
    /\ UNCHANGED <<gameStarted, gamePaused, gameOver, score, bestScore, pipes, bird,
                   orphanFrames, storage, ticks, calls>>

Next == Mount \/ Pointer \/ Keydown \/ StartButton \/ PauseButton \/ Frame

Spec == Init /\ [][Next]_vars

\* The component up to its teardown.
SpecTeardown == Init /\ [][Next \/ Destroy]_vars

\* The scheduler keeps running the frames requested (requestAnimationFrame
\* callbacks fire while the page is shown).  This is WF_vars(FrameAnyTick) with
\* its enabling condition written out: a frame callback can run iff one is
\* pending, and it then runs a tick, since none is pending in a paused game.
FramesKeepFiring == []<>(PendingFrames = {}) \/ []<><<FrameAnyTick>>_vars

\* The component under that scheduler.
NextLive == Mount \/ Pointer \/ Keydown \/ StartButton \/ PauseButton \/ FrameAnyTick
SpecLive == Init /\ [][NextLive]_vars /\ FramesKeepFiring

\* The best-score loading alone, on every text of AllStoredContents.
SpecLoad == InitWith(AllStoredContents) /\ [][Mount]_vars

(* ------------------------------ claims -------------------------------- *)

\* The GameState the three flags encode.
GameState ==
    IF ~gameStarted /\ ~gamePaused /\ ~gameOver THEN "NotStarted"
    ELSE IF gameStarted /\ ~gamePaused /\ ~gameOver THEN "Running"
    ELSE IF gameStarted /\ gamePaused /\ ~gameOver THEN "Paused"
    ELSE IF gameStarted /\ ~gamePaused /\ gameOver THEN "GameOver"
    ELSE "Invalid"

StateOf(g) ==
    IF ~g.gameStarted /\ ~g.gamePaused /\ ~g.gameOver THEN "NotStarted"
    ELSE IF g.gameStarted /\ ~g.gamePaused /\ ~g.gameOver THEN "Running"
    ELSE IF g.gameStarted /\ g.gamePaused /\ ~g.gameOver THEN "Paused"
    ELSE IF g.gameStarted /\ ~g.gamePaused /\ g.gameOver THEN "GameOver"
    ELSE "Invalid"

\* The world is as it was: bird, pipes and score.
WorldUnchanged == bird' = bird /\ pipes' = pipes /\ score' = score

\* g differs from the current state in nothing but the instrumentation.
NothingChanged(g) == [g EXCEPT !.calls = <<>>] = G
\* g has the current world.
SameWorld(g) == g.bird = bird /\ g.pipes = pipes /\ g.score = score

\* What the last handler (that ran anything) ran.
Ran(name) == \E i \in 1..Len(calls) : calls[i] = name
Entered(name) == calls # <<>> /\ Head(calls) = name
\* The last handler was a frame callback: the scheduler called animate, which
\* went straight to update.
FrameCallbackRan == Entered("update")
UpdatesRun == Cardinality({i \in 1..Len(calls) : calls[i] = "update"})

\* C1: pause freezes the world.  Every step that ends in Paused, the pausing
\* step included, leaves bird (y and vy), the pipe sequence (every x) and the
\* score as they were; the world moves again only with the step that resumes.
C1_PauseFreezesWorld == [][GameState' = "Paused" => WorldUnchanged]_vars

\* A game paused in mid-run, two pipes on screen.
C1_Witness ==
    GameState = "Paused" /\ calls = <<"pause">> /\ ticks > 42 /\ Len(pipes) = 2

ListedTransitions ==
    { <<"NotStarted", "Running">>, <<"Running", "Paused">>, <<"Paused", "Running">>,
      <<"Running", "GameOver">>, <<"GameOver", "Running">> }

\* C2 as stated: every change of GameState made by one handler or one frame
\* callback is one of the five listed transitions.
C2_OnlyListedTransitions ==
    [][GameState' = GameState \/ <<GameState, GameState'>> \in ListedTransitions]_vars

\* C2 as amended: every change of GameState made by one handler or one frame
\* callback is one of the five listed transitions or Paused -> GameOver (the
\* resuming togglePause runs a tick itself, and that tick can end the run);
\* NotStarted is never re-entered and the flags never leave the four states.
C2_Transitions ==
    [][GameState' = GameState
       \/ <<GameState, GameState'>> \in ListedTransitions \cup {<<"Paused", "GameOver">>}]_vars

\* A resume whose own tick ended the run.
C2_Witness == GameState = "GameOver" /\ calls = <<"resume", "update", "endGame">>

\* C3: once the game is over, bird, pipes and score stay as they are until
\* startGame runs again: no step from a GameOver state changes them unless it
\* is a startGame, and flap() does nothing there.
C3_GameOverFrozen ==
    [][GameState = "GameOver" =>
          /\ NothingChanged(flap(G))
          /\ WorldUnchanged \/ Entered("startGame")']_vars

\* A run that ended on a pipe or the ground after the second pipe appeared,
\* with no frame left pending.
C3_Witness ==
    GameState = "GameOver" /\ Ran("endGame") /\ Len(pipes) >= 2 /\ PendingFrames = {}

\* C4 as stated: a tick (update) runs only inside a frame callback; no input
\* handler runs one.
C4_TicksOnlyInFrameCallbacks == Ran("update") => FrameCallbackRan

\* C4 as amended: a tick runs only inside animate, which the scheduler calls
\* (a frame callback) and which startGame and a resuming togglePause each call
\* once themselves; a pausing togglePause and flap run no tick, and no handler
\* or callback runs more than one.
C4_TickCallers ==
    /\ Ran("update") => (FrameCallbackRan \/ Entered("startGame") \/ Entered("resume"))
    /\ (Entered("pause") \/ Entered("flap")) => ~Ran("update")
    /\ UpdatesRun <= 1

\* A tick run by a resuming togglePause, in mid-run.
C4_Witness == calls = <<"resume", "update">> /\ ticks > 42 /\ GameState = "Running"

\* An integer text: digits only, or a minus sign and digits.
RECURSIVE AllDigits(_)
AllDigits(t) == t = <<>> \/ (IsDigit(Head(t)) /\ AllDigits(Tail(t)))
IsIntegerText(t) ==
    /\ t # <<>>
    /\ IF Head(t) = "-" THEN Tail(t) # <<>> /\ AllDigits(Tail(t)) ELSE AllDigits(t)
IntegerOf(t) ==
    IF Head(t) = "-" THEN 0 - ParseDigits(Tail(t), 0) ELSE ParseDigits(t, 0)
HasNoDigit(t) == \A i \in 1..Len(t) : ~IsDigit(t[i])

\* C5 as stated: the best score loaded at mount is the stored integer when
\* the entry is an integer text, and exactly 0 when there is no entry or the
\* entry holds no number at all; so it is always a number, which a higher
\* score exceeds.
C5_LoadYieldsStoredIntegerOrZero ==
    mounted /\ ~gameStarted =>
        /\ ~bestScore.nan
        /\ (~storage.present \/ HasNoDigit(storage.text)) => bestScore = Num(0)
        /\ (storage.present /\ IsIntegerText(storage.text))
              => bestScore = Num(IntegerOf(storage.text))

\* C6: the best score never decreases, whatever ticks, pauses, game-overs and
\* restarts occur, and the stored entry is written only with the text of a
\* best score strictly greater than the one held before the write.
C6_BestScoreNeverDecreases ==
    [][mounted =>
          /\ bestScore' = bestScore \/ JsGt(bestScore', bestScore)
          /\ storage' # storage =>
                /\ JsGt(bestScore', bestScore)
                /\ storage' = [present |-> TRUE, text |-> numberToString(bestScore')]]_vars

\* A restart after a run that wrote the best score 2: the score is back to 0,
\* the best score and the entry are not.
C6_Witness ==
    /\ Entered("startGame")
    /\ score = 0
    /\ bestScore = Num(2)
    /\ storage = [present |-> TRUE, text |-> <<"2">>]

\* C7 as stated: once the best score is loaded, BestScore >= Score.
C7_BestAtLeastScore == mounted => (~bestScore.nan /\ bestScore.val >= score)

\* C8: the score is a natural number, it is 0 when startGame has run (the
\* tick startGame runs included), and no other step lowers it.
C8_ScoreResetAndMonotone ==
    [][/\ score' \in Nat
       /\ IF Entered("startGame")' THEN score' = 0 ELSE score' >= score]_vars

\* A run in which the score rose twice.
C8_Witness == GameState = "Running" /\ score = 2 /\ FrameCallbackRan

\* C9 as stated: flap() sets vy to JUMP in Running and touches nothing else,
\* and changes nothing at all in the three other states.
C9_FlapOnlyInRunning ==
    mounted =>
        LET g == flap(G)
        IN  IF GameState = "Running"
            THEN [g EXCEPT !.calls = <<>>] = [G EXCEPT !.bird.vy = JUMP]
            ELSE NothingChanged(g)

\* C10 as stated: P outside Running and R outside GameOver change nothing;
\* P in Running pauses, R in GameOver restarts.
C10_KeysAreStateGated ==
    mounted =>
        \A r1 \in RandomDraws, r2 \in RandomDraws :
            /\ \A key \in {"p", "P"} :
                   LET g == onKeydown(G, key, r1, r2)
                   IN  IF GameState = "Running"
                       THEN StateOf(g) = "Paused" /\ SameWorld(g)
                       ELSE NothingChanged(g)
            /\ \A key \in {"r", "R"} :
                   LET g == onKeydown(G, key, r1, r2)
                   IN  IF GameState = "GameOver"
                       THEN StateOf(g) = "Running" /\ g.score = 0 /\ g.ticks = 1
                       ELSE NothingChanged(g)

\* C10 as amended: P is a toggle.  P in NotStarted and GameOver, and R
\* outside GameOver, change nothing; P in Running pauses and leaves the world
\* as it is; P in Paused resumes, doing what togglePause does there (one tick
\* runs); R in GameOver restarts.
C10_KeysGatedPToggles ==
    mounted =>
        \A r1 \in RandomDraws, r2 \in RandomDraws :
            /\ \A key \in {"p", "P"} :
                   LET g == onKeydown(G, key, r1, r2)
                   IN  CASE GameState = "Running" -> StateOf(g) = "Paused" /\ SameWorld(g)
                         [] GameState = "Paused" ->
                                /\ g.gameStarted /\ ~g.gamePaused
                                /\ g.ticks = ticks + 1
                         [] OTHER -> NothingChanged(g)
            /\ \A key \in {"r", "R"} :
                   LET g == onKeydown(G, key, r1, r2)
                   IN  IF GameState = "GameOver"
                       THEN StateOf(g) = "Running" /\ g.score = 0 /\ g.ticks = 1
                       ELSE NothingChanged(g)

\* A game paused in mid-run, where P resumes and R does nothing.
C10_Witness ==
    /\ GameState = "Paused"
    /\ ticks > 42
    /\ StateOf(onKeydown(G, "p", 0, 0)) = "Running"
    /\ NothingChanged(onKeydown(G, "r", 0, 0))

\* The lowest the bird can be: standing on the ground.
YMax == baseHeight - GROUND_HEIGHT - BIRD_SIZE
\* This step ran a tick on the world it started from (the tick of a frame
\* callback or of a resume; startGame's tick runs on the world it has reset).
TickStep == ticks' = ticks + 1 /\ ~Entered("startGame")'
\* The y the tick of this step integrates, before any clamp.
IntegratedY == bird.y + (bird.vy + GRAVITY)

\* C11: from startGame on, 0 <= bird.y <= worldHeight - groundHeight -
\* birdHeight after every step; and a tick whose integrated y has
\* y + birdHeight > worldHeight - groundHeight leaves y at that bound, the
\* state GameOver, and pipes and score as they were.
C11_YBoundedGroundEnds ==
    [][/\ gameStarted' => (0 <= bird'.y /\ bird'.y <= YMax)
       /\ (TickStep /\ IntegratedY + BIRD_SIZE > baseHeight - GROUND_HEIGHT) =>
              /\ bird'.y = YMax
              /\ GameState' = "GameOver"
              /\ pipes' = pipes
              /\ score' = score]_vars

\* A run that ended on the ground, clear of both pipes on screen.
C11_Witness ==
    /\ GameState = "GameOver"
    /\ bird.y = YMax
    /\ calls = <<"update", "endGame">>
    /\ Len(pipes) = 2
    /\ \A i \in 1..Len(pipes) : pipes[i].x + PIPE_WIDTH < bird.x \/ pipes[i].x > bird.x + BIRD_SIZE

\* The box b strictly overlaps the box at (x, y) of size w by h.
BoxesOverlap(b, x, y, w, h) ==
    b.x < x + w /\ b.x + b.width > x /\ b.y < y + h /\ b.y + b.height > y
\* The bird box b overlaps the upper or the lower obstacle box of pipe p.
Overlaps(b, p) ==
    \/ BoxesOverlap(b, p.x, 0, p.width, p.height)
    \/ BoxesOverlap(b, p.x, p.height + p.gap, p.width,
                    baseHeight - GROUND_HEIGHT - (p.height + p.gap))
\* This step ran a tick that went past the ground check.
MovedTick == TickStep /\ ~(IntegratedY + BIRD_SIZE > baseHeight - GROUND_HEIGHT)
\* In a step with MovedTick, pipe i before the step is pipe j after it.
SamePipe(i, j) == pipes'[j].x = pipes[i].x - GAME_SPEED
\* The scoring step of the tick was reached for pipe j: the loop did not end
\* on a collision at it or before it.
ScoringReached(j) == \A k \in 1..j : ~Overlaps(bird', pipes'[k])
\* The pipes whose passed flag this step has set.
NewlyPassed ==
    {j \in 1..Len(pipes') :
        /\ pipes'[j].passed
        /\ \A i \in 1..Len(pipes) : SamePipe(i, j) => ~pipes[i].passed}

\* C12: a pipe's passed flag is set once and never cleared; it is set on the
\* first tick at whose scoring step bird.x > pipe.x + pipe.width holds, and on
\* no other step; the score rises by one for each pipe whose flag the tick
\* sets and by nothing else; a pipe that leaves by the cull step has been
\* scored, and a pipe that joins is unscored.
C12_PassedOnceScoresOnce ==
    [][IF Entered("startGame")'
       THEN score' = 0 /\ \A j \in 1..Len(pipes') : ~pipes'[j].passed
       ELSE IF ~MovedTick
       THEN pipes' = pipes /\ score' = score
       ELSE /\ \A i \in 1..Len(pipes), j \in 1..Len(pipes') :
                   SamePipe(i, j) =>
                      /\ pipes[i].passed => pipes'[j].passed
                      /\ (~pipes[i].passed /\ pipes'[j].passed) =>
                             /\ bird'.x > pipes'[j].x + pipes'[j].width
                             /\ ~(bird.x > pipes[i].x + pipes[i].width)
                      /\ (/\ ~pipes[i].passed
                          /\ ScoringReached(j)
                          /\ bird'.x > pipes'[j].x + pipes'[j].width) => pipes'[j].passed
            /\ \A j \in 1..Len(pipes') :
                   (\A i \in 1..Len(pipes) : ~SamePipe(i, j)) => ~pipes'[j].passed
            /\ \A i \in 1..Len(pipes) :
                   (\A j \in 1..Len(pipes') : ~SamePipe(i, j)) => pipes[i].passed
            /\ score' = score + Cardinality(NewlyPassed)]_vars

\* The first pipe has been scored and then culled; the pipes on screen have
\* not been passed yet.
C12_Witness ==
    /\ GameState = "Running"
    /\ score = 1
    /\ Len(pipes) >= 2
    /\ \A j \in 1..Len(pipes) : ~pipes[j].passed

\* This step ran a tick that went past the ground check, be it the tick of a
\* frame callback, of a resume or of startGame.
PastGroundTick == MovedTick \/ (Entered("startGame")' /\ ticks' = 1)
\* The pipes the bird overlaps after the step.
HitPipes == {k \in 1..Len(pipes') : Overlaps(bird', pipes'[k])}

\* C13: a tick that passes the ground check ends in GameOver iff, with the
\* pipes moved, culled and spawned, the bird's box strictly overlaps the upper
\* or lower box of some pipe; no pipe at or after the first pipe hit is scored
\* by that tick; and no state the game settles in as Running has the bird
\* overlap a pipe.
C13_GameOverIffOverlap ==
    [][/\ PastGroundTick =>
              /\ GameState' = "GameOver" <=> HitPipes # {}
              /\ \A k \in HitPipes, j \in NewlyPassed : MovedTick => j < k
       /\ GameState' = "Running" => HitPipes = {}]_vars

\* A tick left the bird's right edge exactly on the first pipe's left edge,
\* level with the upper obstacle: the boxes touch and the run goes on.
C13_Witness ==
    /\ GameState = "Running"
    /\ calls = <<"update">>
    /\ bird.x + bird.width = pipes[1].x
    /\ bird.y < pipes[1].height

\* The pipes this step has added: those after it that are no pipe before it.
Appended == {j \in 1..Len(pipes') : \A i \in 1..Len(pipes) : ~SamePipe(i, j)}
\* With the pipes moved and the front one culled, the sequence is empty or
\* its last pipe is left of worldWidth - PIPE_INTERVAL.  (The cull removes the
\* front pipe only, so the last pipe is the last one before the step unless
\* the sequence becomes empty.)
SpawnDue ==
    \/ Len(pipes) = 0
    \/ Len(pipes) = 1 /\ pipes[1].x - GAME_SPEED + PIPE_WIDTH < 0
    \/ pipes[Len(pipes)].x - GAME_SPEED < baseWidth - PIPE_INTERVAL

\* C14: a tick that reaches the spawn step appends exactly one pipe, at the
\* tail, with x = worldWidth, passed unset and an integer height in [40, 260),
\* iff the sequence is then empty or its last pipe has x < worldWidth - 92,
\* and appends none otherwise; a step that is neither such a tick nor a
\* startGame leaves the sequence as it is, and startGame leaves one pipe.
C14_SpawnPolicy ==
    [][IF MovedTick
       THEN IF SpawnDue
            THEN /\ Appended = {Len(pipes')}
                 /\ LET p == pipes'[Len(pipes')]
                    IN  /\ p.x = baseWidth
                        /\ ~p.passed
                        /\ p.height % Unit = 0
                        /\ p.height \div Unit \in 40..259
            ELSE Appended = {}
       ELSE IF Entered("startGame")'
       THEN Len(pipes') = 1
       ELSE pipes' = pipes]_vars

\* The tick that appended the third pipe of a run: the second one has just
\* gone left of worldWidth - 92.
C14_Witness ==
    /\ calls = <<"update">>
    /\ Len(pipes) = 3
    /\ pipes[3].x = baseWidth
    /\ pipes[2].x < baseWidth - PIPE_INTERVAL
    /\ pipes[2].x + GAME_SPEED >= baseWidth - PIPE_INTERVAL

\* The pipes this step has removed: those before it that are no pipe after it.
Removed == {i \in 1..Len(pipes) : \A j \in 1..Len(pipes') : ~SamePipe(i, j)}

\* C15: within a run a pipe leaves the sequence only in the cull step of a
\* tick, only from the front, at most one per tick, and only with its moved
\* x + 52 < 0; the pipes that stay keep their order; and no pipe with
\* x + 52 < 0 is left after any step.
C15_CullOnlyFrontOffScreen ==
    [][/\ IF MovedTick
          THEN /\ Removed \subseteq {1}
               /\ Removed # {} => pipes[1].x - GAME_SPEED + PIPE_WIDTH < 0
               /\ \A i \in 1..Len(pipes), j \in 1..Len(pipes') :
                      SamePipe(i, j) => j = i - Cardinality(Removed)
          ELSE Entered("startGame")' \/ pipes' = pipes
       /\ \A j \in 1..Len(pipes') : ~(pipes'[j].x + PIPE_WIDTH < 0)]_vars

\* The tick after which the first pipe of the run is gone and the second,
\* not yet passed, is at the front of four.
C15_Witness ==
    /\ GameState = "Running"
    /\ calls = <<"update">>
    /\ score = 1
    /\ Len(pipes) = 4
    /\ ~pipes[1].passed

\* C16: in every state the component reaches, Space and ArrowUp through
\* onKeydown do what mousedown and touchstart do through handleStartInput,
\* and that is startGame in NotStarted and GameOver, togglePause (a resume)
\* in Paused and flap in Running.
C16_RoutesAgree ==
    mounted =>
        \A r1 \in RandomDraws, r2 \in RandomDraws :
            LET viaPointer == handleStartInput(G, r1, r2)
                selected == CASE GameState \in {"NotStarted", "GameOver"} -> startGame(G, r1, r2)
                              [] GameState = "Paused" -> togglePause(G, r2)
                              [] OTHER -> flap(G)
            IN  /\ viaPointer = selected
                /\ \A key \in {" ", "ArrowUp"} : onKeydown(G, key, r1, r2) = viaPointer

\* A game paused after the first pipe was passed, which both routes resume.
C16_Witness ==
    /\ GameState = "Paused"
    /\ score = 1
    /\ Head(onKeydown(G, "ArrowUp", 0, 0).calls) = "resume"
    /\ Head(handleStartInput(G, 0, 0).calls) = "resume"

\* The number of animate callbacks the scheduler holds.
PendingCount == (IF framePending THEN 1 ELSE 0) + orphanFrames

\* C17: whatever the order of input events and frame callbacks, at most one
\* tick callback is pending at any moment, and none is pending while the
\* game is Paused or GameOver or once the component is destroyed.
C17_AtMostOnePendingFrame ==
    /\ PendingCount <= 1
    /\ (GameState \in {"Paused", "GameOver"} \/ lifecycle = "destroyed") => PendingCount = 0

\* A component destroyed while a resumed game was running: the frame the
\* resume had requested is gone.
C17_Witness ==
    /\ lifecycle = "destroyed"
    /\ GameState = "Running"
    /\ calls = <<"resume", "update">>
    /\ PendingCount = 0

\* Pipes more than PIPE_INTERVAL apart fit this many between x + 52 = 0 and
\* x = worldWidth.
MaxLivePipes == ((baseWidth + PIPE_WIDTH) \div PIPE_INTERVAL) + 1
\* The pipes whose horizontal extent [x, x + width] meets the bird's, after
\* the step.
PipesAtBird ==
    {j \in 1..Len(pipes') :
        pipes'[j].x <= bird'.x + bird'.width /\ pipes'[j].x + pipes'[j].width >= bird'.x}

\* C18: after every step the pipes are strictly increasing in x from front
\* to back, consecutive ones more than PIPE_INTERVAL apart, at most one of
\* them horizontally at the bird, and there are at most MaxLivePipes; and no
\* step raises the score by more than 1.
C18_PipesOrderedAndSpaced ==
    [][/\ \A j \in 1..(Len(pipes') - 1) : pipes'[j + 1].x - pipes'[j].x > PIPE_INTERVAL
       /\ Cardinality(PipesAtBird) <= 1
       /\ Len(pipes') <= MaxLivePipes
       /\ score' <= score + 1]_vars

\* Five pipes on screen, the second of the run at the bird.
C18_Witness ==
    /\ GameState = "Running"
    /\ Len(pipes) = MaxLivePipes
    /\ pipes[1].passed
    /\ pipes[2].x <= bird.x + bird.width

\* C19: the three flags never reach an invalid combination: gamePaused
\* implies gameStarted, gameOver implies gameStarted, and gamePaused and
\* gameOver are never both set, so the flags always encode one of
\* NotStarted, Running, Paused, GameOver.
C19_FlagsValid ==
    /\ gamePaused => gameStarted
    /\ gameOver => gameStarted
    /\ ~(gamePaused /\ gameOver)
    /\ GameState \in {"NotStarted", "Running", "Paused", "GameOver"}

\* A second run, paused, after a first run that scored 2 and ended.
C19_Witness ==
    /\ gameStarted /\ gamePaused /\ ~gameOver
    /\ score = 0
    /\ bestScore = Num(2)

\* The last handler that ran anything was an input handler, not a frame.
InputRan == calls # <<>> /\ Head(calls) # "update"

\* C20: every run ends if the player stops acting.  From a Running state a
\* frame left behind, the game reaches GameOver with no frame pending unless
\* an input event comes first; and from a Running state an input left behind
\* (a start, a resume or a flap), a frame runs unless the game leaves Running
\* first (by a pause).
C20_RunEndsWithoutInput ==
    /\ (GameState = "Running" /\ FrameCallbackRan)
          ~> ((GameState = "GameOver" /\ PendingCount = 0) \/ InputRan)
    /\ (GameState = "Running" /\ InputRan)
          ~> (GameState # "Running" \/ FrameCallbackRan)

\* A run left alone past its MaxTicks-th tick has ended on a pipe or the
\* ground.
C20_Witness ==
    /\ GameState = "GameOver"
    /\ ticks > MaxTicks
    /\ calls = <<"update", "endGame">>
    /\ PendingCount = 0

====
